---- MODULE Spec2Model ----
(***************************************************************************)
(* Limit order book of src/orderbook/orderbook.cpp: the slab allocator     *)
(* (MemoryPool), the two price-level ledgers (bids, asks), the order index *)
(* (order_lookup) and the operations add_order, cancel_order, amend_order  *)
(* and get_snapshot.                                                       *)
(*                                                                         *)
(* Node pointers are slot numbers 1, 2, ...; block k (k = 1, 2, ...) holds *)
(* the slots (k-1)*BLOCK_SIZE+1 .. k*BLOCK_SIZE.  `nodes` is the memory    *)
(* that holds constructed Node objects: its domain is the set of slots     *)
(* whose Node is alive (placement new, line 84, to ~Node, line 55).        *)
(* Prices are doubles in the source and integers here; the code only       *)
(* compares them.  NaN, the double that no comparison orders, is a value   *)
(* of its own; only SpecNaN passes it, every other specification passes    *)
(* ordered prices.  Order::timestamp_ns is copied with the order and       *)
(* never read by any operation; it is left out of the records.             *)
(***************************************************************************)
EXTENDS Integers, Sequences, FiniteSets, TLC

\* ---- bounds of the model ------------------------------------------------
MaxOrderId == 3
MaxPrice == 2
MaxQuantity == 2
MaxDepth == 2
\* MemoryPool::BLOCK_SIZE is 1024 in the source (line 25); the model scales
\* it down so that the free list runs empty and freed slots are handed out
\* again.
BLOCK_SIZE == 3

\* uint64_t arithmetic wraps at 2^64 in the source; TLC's integers are 32
\* bits wide, so the model wraps total_quantity at 2^30, far above any sum of
\* quantities the model can build.
QuantityModulus == 1073741824

\* ---- program constants --------------------------------------------------
Null == 0

OrderIds == 1..MaxOrderId
Prices == 1..MaxPrice
Quantities == 1..MaxQuantity
Depths == 0..MaxDepth

VARIABLES blocks, free_list, nodes, bids, asks, order_lookup,
          last, bids_out, asks_out

bookvars == <<blocks, free_list, nodes, bids, asks, order_lookup>>
vars == <<blocks, free_list, nodes, bids, asks, order_lookup,
          last, bids_out, asks_out>>

\* ---- containers ---------------------------------------------------------
EmptyMap == [k \in {} |-> Null]

Put(m, k, v) == [x \in (DOMAIN m) \cup {k} |-> IF x = k THEN v ELSE m[x]]

Erase(m, k) == [x \in (DOMAIN m) \ {k} |-> m[x]]

\* ---- the book as one value ----------------------------------------------
Book ==
  [blocks |-> blocks, free_list |-> free_list, nodes |-> nodes,
   bids |-> bids, asks |-> asks, order_lookup |-> order_lookup]

Order(id, is_buy, price, quantity) ==
  [order_id |-> id, is_buy |-> is_buy, price |-> price, quantity |-> quantity]

Node(o) ==
  [order_id |-> o.order_id, is_buy |-> o.is_buy, price |-> o.price,
   quantity |-> o.quantity, next |-> Null, prev |-> Null]

PriceLevelData == [total_quantity |-> 0, head |-> Null, tail |-> Null]

\* ---- MemoryPool ---------------------------------------------------------
allocate_block(b) ==
  LET base == Len(b.blocks) * BLOCK_SIZE
  IN [b EXCEPT !.blocks = Append(@, base + 1),
               !.free_list = @ \o [i \in 1..BLOCK_SIZE |-> base + i]]

\* faulty variant: pop_front is missing
allocate_KeepsFront(b) ==
  LET g == IF b.free_list = << >> THEN allocate_block(b) ELSE b
  IN [ptr |-> Head(g.free_list), book |-> g]

\* faulty variant: a block is added while one slot is still free
allocate_GrowsEarly(b) ==
  LET g == IF Len(b.free_list) <= 1 THEN allocate_block(b) ELSE b
  IN [ptr |-> Head(g.free_list),
      book |-> [g EXCEPT !.free_list = Tail(@)]]

allocate(b) ==
  LET g == IF b.free_list = << >> THEN allocate_block(b) ELSE b
  IN [ptr |-> Head(g.free_list),
      book |-> [g EXCEPT !.free_list = Tail(@)]]

\* allocate_block with an allocation that throws std::bad_alloc. Stage 0:
\* operator new or blocks.push_back throws, and the pool is as before. Stage
\* i > 0: the i-th free_list.push_back throws, with the block recorded and
\* i - 1 of its slots on the free list.
allocate_block_throws(b, stage) ==
  LET base == Len(b.blocks) * BLOCK_SIZE
  IN IF stage = 0 THEN b
     ELSE [b EXCEPT !.blocks = Append(@, base + 1),
                    !.free_list = @ \o [i \in 1..(stage - 1) |-> base + i]]

deallocate(b, ptr) ==
  [b EXCEPT !.nodes = Erase(@, ptr),
            !.free_list = Append(@, ptr)]

\* ---- side selection: `node->is_buy ? bids : asks` -------------------------
SideOf(b, is_buy) == IF is_buy THEN b.bids ELSE b.asks

WithSide(b, is_buy, side) ==
  IF is_buy THEN [b EXCEPT !.bids = side] ELSE [b EXCEPT !.asks = side]

Max(S) == CHOOSE x \in S : \A y \in S : y <= x

Min(S) == CHOOSE x \in S : \A y \in S : x <= y

\* a double that is not a number: price is a double, and no call rejects NaN
NaN == -1

Begin(side, is_buy) == IF is_buy THEN Max(DOMAIN side) ELSE Min(DOMAIN side)

\* side.find(price): the set holding the key of the element found, empty for
\* end(). The search descends the tree of keys, going right at a key that
\* compares before `price` and left otherwise, and then accepts the last key
\* it went left at unless `price` compares before it. Every comparison with
\* NaN is false: a search for NaN goes left at every key and accepts begin();
\* a NaN key can only be inserted into an empty map, is the root from then on
\* and is accepted by every search, so that no second key joins it.
Find(side, is_buy, price) ==
  IF DOMAIN side = {} THEN {}
  ELSE IF NaN \in DOMAIN side THEN {NaN}
  ELSE IF price = NaN THEN {Begin(side, is_buy)}
  ELSE {price} \cap DOMAIN side

\* the key of the element side[price] refers to: the one found, or `price`
\* itself, which is then inserted
KeyFor(side, is_buy, price) ==
  IF Find(side, is_buy, price) = {} THEN price
  ELSE CHOOSE k \in Find(side, is_buy, price) : TRUE

\* new_price != old_price on doubles
PriceDiffers(p, q) == p = NaN \/ q = NaN \/ p # q

\* side[price] of std::map: the level, default-constructed when absent
LevelFor(side, price) ==
  IF price \in DOMAIN side THEN side[price] ELSE PriceLevelData

\* faulty variant: `=` written for `+=`
AddQuantity_Assigns(level, quantity) ==
  [level EXCEPT !.total_quantity = quantity % QuantityModulus]

\* level.total_quantity += quantity, in uint64_t
AddQuantity(level, quantity) ==
  [level EXCEPT !.total_quantity = (@ + quantity) % QuantityModulus]

\* faulty variant: the aggregate is not reduced
SubQuantity_Keeps(level, quantity) == level

\* level.total_quantity -= quantity, in uint64_t
SubQuantity(level, quantity) ==
  [level EXCEPT !.total_quantity = (@ - quantity) % QuantityModulus]

\* faulty variant: the record is linked in front of the head
LinkAtTail_AtHead(ns, level, node) ==
  LET n1 == [ns EXCEPT ![node].prev = Null, ![node].next = level.head]
  IN IF level.head # Null
       THEN [nodes |-> [n1 EXCEPT ![level.head].prev = node],
             level |-> [level EXCEPT !.head = node]]
       ELSE [nodes |-> n1,
             level |-> [level EXCEPT !.head = node, !.tail = node]]

\* ---- tail insertion shared by add_order and the price-changing amend ----
\* node->next = nullptr; node->prev = level.tail; link behind the tail
LinkAtTail(ns, level, node) ==
  LET n1 == [ns EXCEPT ![node].next = Null, ![node].prev = level.tail]
  IN IF level.tail # Null
       THEN [nodes |-> [n1 EXCEPT ![level.tail].next = node],
             level |-> [level EXCEPT !.tail = node]]
       ELSE [nodes |-> n1,
             level |-> [level EXCEPT !.head = node, !.tail = node]]

\* faulty variant: the predecessor's next is cleared, which cuts off the
\* records behind
Unlink_CutsTail(ns, level, node) ==
  LET nd == ns[node]
      n1 == IF nd.prev # Null THEN [ns EXCEPT ![nd.prev].next = Null] ELSE ns
      l1 == IF nd.prev # Null THEN level ELSE [level EXCEPT !.head = nd.next]
      n2 == IF nd.next # Null THEN [n1 EXCEPT ![nd.next].prev = nd.prev] ELSE n1
      l2 == IF nd.next # Null THEN l1 ELSE [l1 EXCEPT !.tail = nd.prev]
  IN [nodes |-> n2, level |-> l2]

\* faulty variant: the successor's prev is not updated
Unlink_KeepsBackLink(ns, level, node) ==
  LET nd == ns[node]
      n1 == IF nd.prev # Null THEN [ns EXCEPT ![nd.prev].next = nd.next] ELSE ns
      l1 == IF nd.prev # Null THEN level ELSE [level EXCEPT !.head = nd.next]
      l2 == IF nd.next # Null THEN l1 ELSE [l1 EXCEPT !.tail = nd.prev]
  IN [nodes |-> n1, level |-> l2]

\* ---- unlinking shared by cancel_order and the price-changing amend ------
Unlink(ns, level, node) ==
  LET nd == ns[node]
      n1 == IF nd.prev # Null THEN [ns EXCEPT ![nd.prev].next = nd.next] ELSE ns
      l1 == IF nd.prev # Null THEN level ELSE [level EXCEPT !.head = nd.next]
      n2 == IF nd.next # Null THEN [n1 EXCEPT ![nd.next].prev = nd.prev] ELSE n1
      l2 == IF nd.next # Null THEN l1 ELSE [l1 EXCEPT !.tail = nd.prev]
  IN [nodes |-> n2, level |-> l2]

\* faulty variant: the level is erased although records remain in it
EraseIfEmpty_Always(side, price, level) == Erase(side, price)

\* faulty variant: the emptied level is left in the map
EraseIfEmpty_Keeps(side, price, level) == Put(side, price, level)

\* if (level.head == nullptr) side.erase(level_it); the level is a reference
\* into the map, so a level that stays carries the changes made to it
EraseIfEmpty(side, price, level) ==
  IF level.head = Null THEN Erase(side, price) ELSE Put(side, price, level)

\* faulty variant: the early return reports success
Failure_ReportsSuccess(b) == [ret |-> TRUE, book |-> b]

\* `return false` without any mutation
Failure(b) == [ret |-> FALSE, book |-> b]

\* faulty variant: an add of an identifier that is resting does nothing
add_order_IgnoresResting(b, order) ==
  IF order.order_id \in DOMAIN b.order_lookup THEN b
  ELSE
    LET a == allocate(b)
        node == a.ptr
        b1 == [a.book EXCEPT !.nodes = Put(@, node, Node(order)),
                             !.order_lookup = Put(@, order.order_id, node)]
        side == SideOf(b1, order.is_buy)
        key == KeyFor(side, order.is_buy, order.price)
        level == AddQuantity(LevelFor(side, key), order.quantity)
        lk == LinkAtTail(b1.nodes, level, node)
    IN WithSide([b1 EXCEPT !.nodes = lk.nodes], order.is_buy,
                Put(side, key, lk.level))

\* ---- OrderBook::add_order -------------------------------------------------
add_order(b, order) ==
  LET a == allocate(b)
      node == a.ptr
      b1 == [a.book EXCEPT !.nodes = Put(@, node, Node(order)),
                           !.order_lookup = Put(@, order.order_id, node)]
      side == SideOf(b1, order.is_buy)
      key == KeyFor(side, order.is_buy, order.price)
      level == AddQuantity(LevelFor(side, key), order.quantity)
      lk == LinkAtTail(b1.nodes, level, node)
  IN WithSide([b1 EXCEPT !.nodes = lk.nodes], order.is_buy,
              Put(side, key, lk.level))

\* faulty variant: the level is looked up, and so created, before the
\* allocation
add_order_throws_LevelFirst(b, order, stage) ==
  LET side == SideOf(b, order.is_buy)
      key == KeyFor(side, order.is_buy, order.price)
  IN WithSide(allocate_block_throws(b, stage), order.is_buy,
              Put(side, key, LevelFor(side, key)))

\* add_order when pool.allocate() of line 83 throws: the exception leaves
\* add_order before line 84
add_order_throws(b, order, stage) == allocate_block_throws(b, stage)

\* faulty variant: order_lookup.erase(it) is missing
cancel_order_KeepsIndex(b, order_id) ==
  IF order_id \notin DOMAIN b.order_lookup
    THEN Failure(b)
    ELSE
      LET node == b.order_lookup[order_id]
          nd == b.nodes[node]
          side == SideOf(b, nd.is_buy)
      IN IF Find(side, nd.is_buy, nd.price) = {}
           THEN Failure(b)
           ELSE
             LET key == KeyFor(side, nd.is_buy, nd.price)
                 level == SubQuantity(side[key], nd.quantity)
                 ul == Unlink(b.nodes, level, node)
                 b1 == WithSide([b EXCEPT !.nodes = ul.nodes], nd.is_buy,
                                EraseIfEmpty(side, key, ul.level))
             IN [ret |-> TRUE, book |-> deallocate(b1, node)]

\* ---- OrderBook::cancel_order ----------------------------------------------
cancel_order(b, order_id) ==
  IF order_id \notin DOMAIN b.order_lookup
    THEN Failure(b)
    ELSE
      LET node == b.order_lookup[order_id]
          nd == b.nodes[node]
          side == SideOf(b, nd.is_buy)
      IN IF Find(side, nd.is_buy, nd.price) = {}
           THEN Failure(b)
           ELSE
             LET key == KeyFor(side, nd.is_buy, nd.price)
                 level == SubQuantity(side[key], nd.quantity)
                 ul == Unlink(b.nodes, level, node)
                 b1 == WithSide([b EXCEPT !.nodes = ul.nodes], nd.is_buy,
                                EraseIfEmpty(side, key, ul.level))
                 b2 == [b1 EXCEPT !.order_lookup = Erase(@, order_id)]
             IN [ret |-> TRUE, book |-> deallocate(b2, node)]

\* ---- OrderBook::amend_order, the branch new_price != old_price -------------
\* faulty variant: the record keeps its old price
UpdateNode_KeepsPrice(ns, node, new_price, new_quantity) ==
  [ns EXCEPT ![node].quantity = new_quantity]

\* node->price = new_price; node->quantity = new_quantity
UpdateNode(ns, node, new_price, new_quantity) ==
  [ns EXCEPT ![node].price = new_price, ![node].quantity = new_quantity]

AmendPrice(b, node, new_price, new_quantity) ==
  LET old_price == b.nodes[node].price
      old_quantity == b.nodes[node].quantity
      is_buy == b.nodes[node].is_buy
      side == SideOf(b, is_buy)
  IN IF Find(side, is_buy, old_price) = {}
       THEN Failure(b)
       ELSE
         LET old_key == KeyFor(side, is_buy, old_price)
             old_level == SubQuantity(side[old_key], old_quantity)
             ul == Unlink(b.nodes, old_level, node)
             side1 == EraseIfEmpty(side, old_key, ul.level)
             n1 == UpdateNode(ul.nodes, node, new_price, new_quantity)
             new_key == KeyFor(side1, is_buy, new_price)
             new_level == AddQuantity(LevelFor(side1, new_key), new_quantity)
             lk == LinkAtTail(n1, new_level, node)
         IN [ret |-> TRUE,
             book |-> WithSide([b EXCEPT !.nodes = lk.nodes], is_buy,
                               Put(side1, new_key, lk.level))]

\* faulty variant: the old quantity is not taken off the aggregate
AmendQuantity_AddsOnly(b, node, new_quantity) ==
  LET nd == b.nodes[node]
      side == SideOf(b, nd.is_buy)
  IN [ret |-> TRUE,
      book |-> WithSide([b EXCEPT !.nodes[node].quantity = new_quantity],
                        nd.is_buy,
                        Put(side, KeyFor(side, nd.is_buy, nd.price),
                            AddQuantity(side[KeyFor(side, nd.is_buy, nd.price)],
                                        new_quantity)))]

\* faulty variant: a quantity change is handled as a move to the same price,
\* which sends the order to the tail
AmendQuantity_Requeues(b, node, new_quantity) ==
  AmendPrice(b, node, b.nodes[node].price, new_quantity)

\* faulty variant: the record gets the new quantity, the level keeps its
\* aggregate
AmendQuantity_SkipsLevel(b, node, new_quantity) ==
  [ret |-> TRUE, book |-> [b EXCEPT !.nodes[node].quantity = new_quantity]]

\* ---- OrderBook::amend_order, the branch "same price, update quantity" -----
AmendQuantity(b, node, new_quantity) ==
  LET old_price == b.nodes[node].price
      old_quantity == b.nodes[node].quantity
      is_buy == b.nodes[node].is_buy
      side == SideOf(b, is_buy)
  IN IF Find(side, is_buy, old_price) = {}
       THEN Failure(b)
       ELSE
         LET key == KeyFor(side, is_buy, old_price)
             level == AddQuantity(SubQuantity(side[key], old_quantity),
                                  new_quantity)
         IN [ret |-> TRUE,
             book |-> WithSide([b EXCEPT !.nodes[node].quantity = new_quantity],
                               is_buy, Put(side, key, level))]

\* faulty variant: no test for new_quantity == 0
amend_order_IgnoresZero(b, order_id, new_price, new_quantity) ==
  IF order_id \notin DOMAIN b.order_lookup
    THEN Failure(b)
    ELSE IF PriceDiffers(new_price, b.nodes[b.order_lookup[order_id]].price)
      THEN AmendPrice(b, b.order_lookup[order_id], new_price, new_quantity)
      ELSE AmendQuantity(b, b.order_lookup[order_id], new_quantity)

\* ---- OrderBook::amend_order -----------------------------------------------
amend_order(b, order_id, new_price, new_quantity) ==
  IF order_id \notin DOMAIN b.order_lookup
    THEN Failure(b)
    ELSE
      LET node == b.order_lookup[order_id]
          old_price == b.nodes[node].price
      IN IF new_quantity = 0
           THEN cancel_order(b, order_id)
           ELSE IF PriceDiffers(new_price, old_price)
             THEN AmendPrice(b, node, new_price, new_quantity)
             ELSE AmendQuantity(b, node, new_quantity)

\* the condition of the early returns of lines 110, 155 and 196: the index
\* has order_id and find returns end() for the price of its record
NoLevel(b, order_id) ==
  /\ order_id \in DOMAIN b.order_lookup
  /\ Find(SideOf(b, b.nodes[b.order_lookup[order_id]].is_buy),
          b.nodes[b.order_lookup[order_id]].is_buy,
          b.nodes[b.order_lookup[order_id]].price) = {}

\* which branch of cancel_order a call takes, recorded with the call
CancelPath(b, order_id) ==
  IF order_id \notin DOMAIN b.order_lookup THEN "not_found"
  ELSE IF NoLevel(b, order_id) THEN "no_level"
  ELSE "found"

\* which branch of amend_order a call takes (the conditions of lines 139,
\* 146 and 152, and of the early returns for a missing level), recorded with
\* the call
AmendPath(b, order_id, new_price, new_quantity) ==
  IF order_id \notin DOMAIN b.order_lookup THEN "not_found"
  ELSE IF NoLevel(b, order_id) THEN "no_level"
  ELSE IF new_quantity = 0 THEN "zero"
  ELSE IF PriceDiffers(new_price, b.nodes[b.order_lookup[order_id]].price)
    THEN "price"
  ELSE "quantity"

\* ---- iteration order of the two std::map ledgers --------------------------
RECURSIVE Ascending(_)
\* std::map<double, PriceLevelData>: lowest key first
Ascending(S) ==
  IF S = {} THEN << >> ELSE <<Min(S)>> \o Ascending(S \ {Min(S)})

\* faulty variant: bids declared without std::greater
Descending_Ascends(S) == Ascending(S)

RECURSIVE Descending(_)
\* std::map<double, PriceLevelData, std::greater<double>>: highest key first
Descending(S) ==
  IF S = {} THEN << >> ELSE <<Max(S)>> \o Descending(S \ {Max(S)})

\* the loop of get_snapshot over one side: stop once count >= depth
TakeLevels(keys, side, depth) ==
  LET n == IF Len(keys) < depth THEN Len(keys) ELSE depth
  IN [i \in 1..n |->
        [price |-> keys[i], total_quantity |-> side[keys[i]].total_quantity]]

\* ---- OrderBook::get_snapshot ----------------------------------------------
get_snapshot(b, depth) ==
  [bids_out |-> TakeLevels(Descending(DOMAIN b.bids), b.bids, depth),
   asks_out |-> TakeLevels(Ascending(DOMAIN b.asks), b.asks, depth)]

\* ---- the state machine ----------------------------------------------------
Install(b) ==
  /\ blocks' = b.blocks
  /\ free_list' = b.free_list
  /\ nodes' = b.nodes
  /\ bids' = b.bids
  /\ asks' = b.asks
  /\ order_lookup' = b.order_lookup

\* the call that produced the current state: operation, arguments (0 for
\* those the operation does not take), branch taken and returned value
Called(op, id, price, quantity, depth, path, ret) ==
  [op |-> op, order_id |-> id, price |-> price, quantity |-> quantity,
   depth |-> depth, path |-> path, ret |-> ret]

RetOf(r) == IF r.ret THEN "true" ELSE "false"

Init ==
  /\ blocks = << >>
  /\ free_list = << >>
  /\ nodes = EmptyMap
  /\ bids = EmptyMap
  /\ asks = EmptyMap
  /\ order_lookup = EmptyMap
  /\ last = Called("none", 0, 0, 0, 0, "none", "void")
  /\ bids_out = << >>
  /\ asks_out = << >>

\* the call before this one removed `id` from the book
JustLeft(id) ==
  /\ last.order_id = id
  /\ last.ret = "true"
  /\ last.op = "cancel" \/ (last.op = "amend" /\ last.path = "zero")

\* add(order) under its preconditions: id not resting, quantity > 0
Add(id, is_buy, price, quantity) ==
  /\ id \notin DOMAIN order_lookup
  /\ quantity > 0
  /\ \E b \in {add_order(Book, Order(id, is_buy, price, quantity))} : Install(b)
  /\ last' = Called("add", id, price, quantity, 0,
                    IF JustLeft(id) THEN "readd" ELSE "add", "void")
  /\ bids_out' = << >>
  /\ asks_out' = << >>

Cancel(id) ==
  \E r \in {cancel_order(Book, id)} :
     /\ Install(r.book)
     /\ last' = Called("cancel", id, 0, 0, 0, CancelPath(Book, id), RetOf(r))
     /\ bids_out' = << >>
     /\ asks_out' = << >>

Amend(id, new_price, new_quantity) ==
  \E r \in {amend_order(Book, id, new_price, new_quantity)} :
     /\ Install(r.book)
     /\ last' = Called("amend", id, new_price, new_quantity, 0,
                       AmendPath(Book, id, new_price, new_quantity), RetOf(r))
     /\ bids_out' = << >>
     /\ asks_out' = << >>

\* print_book's use of get_snapshot: fresh vectors b, a filled by the call
Snapshot(depth) ==
  \E r \in {get_snapshot(Book, depth)} :
     /\ bids_out' = r.bids_out
     /\ asks_out' = r.asks_out
     /\ last' = Called("snapshot", 0, 0, 0, depth, "read", "void")
     /\ UNCHANGED bookvars

Next ==
  \/ \E id \in OrderIds, is_buy \in BOOLEAN, p \in Prices, q \in Quantities :
       Add(id, is_buy, p, q)
  \/ \E id \in OrderIds : Cancel(id)
  \/ \E id \in OrderIds, p \in Prices, q \in 0..MaxQuantity : Amend(id, p, q)
  \/ \E depth \in Depths : Snapshot(depth)

Spec == Init /\ [][Next]_vars

\* ---- a worked sequence of calls on an empty book ---------------------------
\* buy orders 1 (100 x 10), 2 (100 x 5), 3 (101 x 7) are added, 1 is
\* cancelled, 2 is amended to quantity 20 at its price, 3 is moved to 99
ScenarioCalls ==
  << [op |-> "add",    id |-> 1, price |-> 100, quantity |-> 10],
     [op |-> "add",    id |-> 2, price |-> 100, quantity |-> 5],
     [op |-> "add",    id |-> 3, price |-> 101, quantity |-> 7],
     [op |-> "cancel", id |-> 1, price |-> 0,   quantity |-> 0],
     [op |-> "amend",  id |-> 2, price |-> 100, quantity |-> 20],
     [op |-> "amend",  id |-> 3, price |-> 99,  quantity |-> 7] >>

\* the identifiers of the sequence and one that is never added
ScenarioIds == {1, 2, 3, 4}

ScenarioPrices == {99, 100, 101}

ScenarioQuantities == {0, 5, 7, 10, 20}

\* what the index and the records say is resting: <<id, price, quantity>>
Resting(b) ==
  {<<id, b.nodes[b.order_lookup[id]].price, b.nodes[b.order_lookup[id]].quantity>> :
     id \in DOMAIN b.order_lookup}

\* the resting orders after the first k calls of the sequence, at index k + 1
ScenarioBooks ==
  << {},
     {<<1, 100, 10>>},
     {<<1, 100, 10>>, <<2, 100, 5>>},
     {<<1, 100, 10>>, <<2, 100, 5>>, <<3, 101, 7>>},
     {<<2, 100, 5>>, <<3, 101, 7>>},
     {<<2, 100, 20>>, <<3, 101, 7>>},
     {<<2, 100, 20>>, <<3, 99, 7>>} >>

\* exactly the first k calls of the sequence have been made
After(k) == Resting(Book) = ScenarioBooks[k + 1]

\* the next call of the sequence
ScenarioStep(k) ==
  /\ After(k - 1)
  /\ \/ /\ ScenarioCalls[k].op = "add"
        /\ Add(ScenarioCalls[k].id, TRUE, ScenarioCalls[k].price,
               ScenarioCalls[k].quantity)
     \/ /\ ScenarioCalls[k].op = "cancel"
        /\ Cancel(ScenarioCalls[k].id)
     \/ /\ ScenarioCalls[k].op = "amend"
        /\ Amend(ScenarioCalls[k].id, ScenarioCalls[k].price,
                 ScenarioCalls[k].quantity)

\* between the calls of the sequence: cancels and amends of identifiers that
\* are not resting, and snapshots of any depth
NextScenario ==
  \/ \E k \in DOMAIN ScenarioCalls : ScenarioStep(k)
  \/ \E id \in ScenarioIds \ DOMAIN order_lookup : Cancel(id)
  \/ \E id \in ScenarioIds \ DOMAIN order_lookup :
       \E p \in ScenarioPrices, q \in ScenarioQuantities : Amend(id, p, q)
  \/ \E depth \in 0..3 : Snapshot(depth)

SpecScenario == Init /\ [][NextScenario]_vars

\* ---- calls whose price may be NaN ------------------------------------------
\* the prices a caller can pass: those of Prices and NaN
DoublePrices == Prices \cup {NaN}

\* the most a level can hold when every resting order is counted once
MaxTotal == MaxOrderId * MaxQuantity

\* an aggregate that a NaN lookup has sent to the wrong level drifts without
\* end: the calls stop once one has left the range 0..MaxTotal
TotalsInRange ==
  \A is_buy \in BOOLEAN :
    \A p \in DOMAIN SideOf(Book, is_buy) :
      SideOf(Book, is_buy)[p].total_quantity <= MaxTotal

\* two identifiers are enough for a lookup to go wrong
NaNIds == {1, 2}

\* buy orders of one unit, with identifiers that are not resting
NextNaN ==
  \/ \E id \in NaNIds, p \in DoublePrices : TotalsInRange /\ Add(id, TRUE, p, 1)
  \/ \E id \in NaNIds : TotalsInRange /\ Cancel(id)
  \/ \E id \in NaNIds, p \in DoublePrices, q \in 0..1 :
       TotalsInRange /\ Amend(id, p, q)
  \/ \E depth \in Depths : TotalsInRange /\ Snapshot(depth)

SpecNaN == Init /\ [][NextNaN]_vars

\* ---- calls of add_order in which the allocation fails ----------------------
MaxBlocks == 2

\* add(order) under its preconditions, with an empty free list and an
\* allocation that throws inside allocate_block
AddThrows(id, is_buy, price, quantity, stage) ==
  /\ id \notin DOMAIN order_lookup
  /\ quantity > 0
  /\ free_list = << >>
  /\ \E b \in {add_order_throws(Book, Order(id, is_buy, price, quantity), stage)} :
       Install(b)
  /\ last' = Called("add", id, price, quantity, 0, "alloc_failed", "throws")
  /\ bids_out' = << >>
  /\ asks_out' = << >>

\* a call that needs a new block is made while fewer than MaxBlocks exist
RoomToGrow == free_list # << >> \/ Len(blocks) < MaxBlocks

\* the identifiers of the calls: one fewer than OrderIds
FewIds == 1..(MaxOrderId - 1)

\* orders of one unit
NextAllocFail ==
  \/ \E id \in FewIds, is_buy \in BOOLEAN, p \in Prices :
       RoomToGrow /\ Add(id, is_buy, p, 1)
  \/ \E id \in FewIds, is_buy \in BOOLEAN, p \in Prices, stage \in 0..BLOCK_SIZE :
       RoomToGrow /\ AddThrows(id, is_buy, p, 1, stage)
  \/ \E id \in FewIds : Cancel(id)
  \/ \E id \in FewIds, p \in Prices, q \in 0..1 : Amend(id, p, q)
  \/ \E depth \in Depths : Snapshot(depth)

SpecAllocFail == Init /\ [][NextAllocFail]_vars

\* ---- more resting orders than one block has slots -------------------------
\* one identifier more than a block has slots
PoolIds == 1..(BLOCK_SIZE + 1)

\* buy orders of one unit at one price; the amends are those that release a
\* slot
NextPool ==
  \/ \E id \in PoolIds : Add(id, TRUE, 1, 1)
  \/ \E id \in PoolIds : Cancel(id)
  \/ \E id \in PoolIds : Amend(id, 1, 0)
  \/ Snapshot(1)

SpecPool == Init /\ [][NextPool]_vars

\* ---- calls of add_order with an identifier that may be resting -------------
\* add(order) with quantity > 0 and any identifier
AddAny(id, is_buy, price, quantity) ==
  /\ quantity > 0
  /\ \E b \in {add_order(Book, Order(id, is_buy, price, quantity))} : Install(b)
  /\ last' = Called("add", id, price, quantity, 0,
                    IF id \in DOMAIN order_lookup THEN "duplicate" ELSE "add",
                    "void")
  /\ bids_out' = << >>
  /\ asks_out' = << >>

\* records that are never released use up the pool: the adds stop when the
\* first block is used up
RoomInFirstBlock == free_list # << >> \/ blocks = << >>

\* orders of one unit
NextDuplicate ==
  \/ \E id \in FewIds, is_buy \in BOOLEAN, p \in Prices :
       RoomInFirstBlock /\ AddAny(id, is_buy, p, 1)
  \/ \E id \in FewIds : Cancel(id)
  \/ \E id \in FewIds, p \in Prices, q \in 0..1 : Amend(id, p, q)
  \/ \E depth \in Depths : Snapshot(depth)

SpecDuplicate == Init /\ [][NextDuplicate]_vars

\* ---- views of the book used by the properties ----------------------------
RECURSIVE ChainFrom(_, _, _)
\* the slots met by following next from p, at most `fuel` of them; a pointer
\* to a dead Node ends the walk
ChainFrom(ns, p, fuel) ==
  IF p = Null \/ fuel = 0 THEN << >>
  ELSE IF p \notin DOMAIN ns THEN <<p>>
  ELSE <<p>> \o ChainFrom(ns, ns[p].next, fuel - 1)

\* the chain of a level, head first
Chain(ns, level) == ChainFrom(ns, level.head, Cardinality(DOMAIN ns) + 1)

\* the chain of the level at `price`, empty when the side has no such level
ChainAt(ns, side, price) ==
  IF price \in DOMAIN side THEN Chain(ns, side[price]) ELSE << >>

\* the aggregate of the level at `price`, 0 when the side has no such level
TotalAt(side, price) ==
  IF price \in DOMAIN side THEN side[price].total_quantity ELSE 0

RECURSIVE SumQuantities(_, _)
SumQuantities(ns, chain) ==
  IF chain = << >> THEN 0
  ELSE (IF Head(chain) \in DOMAIN ns THEN ns[Head(chain)].quantity ELSE 0)
       + SumQuantities(ns, Tail(chain))

Range(seq) == {seq[i] : i \in DOMAIN seq}

\* seq without the elements outside `keep`, order retained
RECURSIVE Restrict(_, _)
Restrict(seq, keep) ==
  IF seq = << >> THEN << >>
  ELSE IF Head(seq) \in keep THEN <<Head(seq)>> \o Restrict(Tail(seq), keep)
  ELSE Restrict(Tail(seq), keep)

\* every place <<is_buy, price, position>> of a chain where slot n is linked
Places(b, n) ==
  {pl \in BOOLEAN \X Prices \X (1..(Cardinality(DOMAIN b.nodes) + 1)) :
     /\ pl[2] \in DOMAIN SideOf(b, pl[1])
     /\ pl[3] \in DOMAIN Chain(b.nodes, SideOf(b, pl[1])[pl[2]])
     /\ Chain(b.nodes, SideOf(b, pl[1])[pl[2]])[pl[3]] = n}

\* every slot linked into some chain
Linked(b) ==
  UNION {Range(Chain(b.nodes, SideOf(b, s)[p])) :
           <<s, p>> \in {sp \in BOOLEAN \X Prices : sp[2] \in DOMAIN SideOf(b, sp[1])}}

\* ---- C1 -------------------------------------------------------------------
\* C1: after every operation, on both sides, every price level's
\* total_quantity equals the sum of the quantities of the records in its chain.
C1_TotalQuantityIsChainSum ==
  \A is_buy \in BOOLEAN :
    \A p \in DOMAIN SideOf(Book, is_buy) :
      SideOf(Book, is_buy)[p].total_quantity
        = SumQuantities(nodes, Chain(nodes, SideOf(Book, is_buy)[p]))

\* a successful amend has left a bid level of at least two records
C1_Witness ==
  /\ last.op = "amend"
  /\ last.ret = "true"
  /\ \E p \in DOMAIN bids :
       /\ Len(Chain(nodes, bids[p])) >= 2
       /\ bids[p].total_quantity >= 3

\* ---- C2 -------------------------------------------------------------------
\* C2: after every operation no price level with an empty chain exists in the
\* bids or asks ledger.
C2_NoEmptyLevel ==
  \A is_buy \in BOOLEAN :
    \A p \in DOMAIN SideOf(Book, is_buy) :
      /\ SideOf(Book, is_buy)[p].head # Null
      /\ Chain(nodes, SideOf(Book, is_buy)[p]) # << >>

\* a price-changing amend of the only resting order: its old level, emptied
\* by the unlink, is gone
C2_Witness ==
  /\ last.path = "price"
  /\ last.ret = "true"
  /\ Cardinality(DOMAIN order_lookup) = 1
  /\ Cardinality(DOMAIN bids) + Cardinality(DOMAIN asks) = 1

\* ---- C3 -------------------------------------------------------------------
\* C3: every identifier in the index resolves to a live record carrying that
\* identifier, linked exactly once, in the chain of the level keyed by its
\* stored price on its stored side; and every record linked into a chain is
\* the target of exactly one index entry, the one of its own order_id.
C3_IndexAndLedgerAgree ==
  /\ \A id \in DOMAIN order_lookup :
       LET n == order_lookup[id]
       IN /\ n \in DOMAIN nodes
          /\ nodes[n].order_id = id
          /\ nodes[n].price \in DOMAIN SideOf(Book, nodes[n].is_buy)
          /\ Cardinality(Places(Book, n)) = 1
          /\ \A pl \in Places(Book, n) :
               pl[1] = nodes[n].is_buy /\ pl[2] = nodes[n].price
  /\ \A n \in Linked(Book) :
       /\ n \in DOMAIN nodes
       /\ Cardinality({id \in DOMAIN order_lookup : order_lookup[id] = n}) = 1
       /\ nodes[n].order_id \in DOMAIN order_lookup
       /\ order_lookup[nodes[n].order_id] = n

\* three orders rest, on both sides, right after a price-changing amend
C3_Witness ==
  /\ last.path = "price"
  /\ last.ret = "true"
  /\ Cardinality(DOMAIN order_lookup) = 3
  /\ DOMAIN bids # {}
  /\ DOMAIN asks # {}

\* ---- what a caller can observe of a book ----------------------------------
\* depths up to one more than the number of prices: every depth beyond gives
\* the same snapshot
ObservedDepths == 0..(MaxPrice + 1)

Observable(b) ==
  [snapshots |-> [d \in ObservedDepths |-> get_snapshot(b, d)],
   ids |-> DOMAIN b.order_lookup]

\* ---- C4 -------------------------------------------------------------------
\* C4: whenever add(o) has just been applied (o's id not resting before,
\* quantity > 0), cancel(o.order_id) applied to the resulting book succeeds
\* and yields a book with the same snapshot at every depth and the same set
\* of indexed identifiers as the book before the add.
C4_AddThenCancelRestores ==
  [][last'.op = "add" =>
       LET r == cancel_order(Book', last'.order_id)
       IN /\ r.ret
          /\ Observable(r.book) = Observable(Book)]_vars

\* an add has joined a bid level that already held a record, asks resting too
C4_Witness ==
  /\ last.op = "add"
  /\ last.price \in DOMAIN bids
  /\ Len(Chain(nodes, bids[last.price])) >= 2
  /\ nodes[bids[last.price].tail].order_id = last.order_id
  /\ DOMAIN asks # {}

\* ---- C5 -------------------------------------------------------------------
\* C5: a cancel or amend call on an identifier that is not in the index
\* returns false and changes nothing: index, ledgers, chains, allocator and
\* every snapshot are as before.  A second cancel of a cancelled id is such
\* a call.
C5_AbsentIdFailsWithoutMutation ==
  [][(/\ last'.op \in {"cancel", "amend"}
      /\ last'.order_id \notin DOMAIN order_lookup)
       => /\ last'.ret = "false"
          /\ UNCHANGED bookvars
          /\ Observable(Book') = Observable(Book)]_vars

\* a cancel of an absent id has returned false while two orders rest
C5_Witness ==
  /\ last.op = "cancel"
  /\ last.path = "not_found"
  /\ last.ret = "false"
  /\ Cardinality(DOMAIN order_lookup) = 2

\* ---- C6 -------------------------------------------------------------------
\* C6: amend(id, p, 0) on a resting id, for any price p, returns true and
\* leaves exactly the book cancel(id) leaves: the record is unlinked from
\* its chain, its level is removed if that emptied it, the id is out of the
\* index and the slot is back on the free list.
C6_AmendZeroIsCancel ==
  [][(last'.op = "amend" /\ last'.path = "zero") =>
       LET id == last'.order_id
           n == order_lookup[id]
           is_buy == nodes[n].is_buy
           price == nodes[n].price
           before == ChainAt(nodes, SideOf(Book, is_buy), price)
       IN /\ last'.quantity = 0
          /\ last'.ret = "true"
          /\ Book' = cancel_order(Book, id).book
          /\ id \notin DOMAIN order_lookup'
          /\ n \notin DOMAIN nodes'
          /\ n \in Range(free_list')
          /\ ChainAt(nodes', SideOf(Book', is_buy), price)
               = Restrict(before, Range(before) \ {n})
          /\ (before = <<n>>) = (price \notin DOMAIN SideOf(Book', is_buy))]_vars

\* a zero-quantity amend naming a price other than the order's own has
\* removed the order and left another one resting
C6_Witness ==
  /\ last.op = "amend"
  /\ last.path = "zero"
  /\ last.ret = "true"
  /\ last.order_id \notin DOMAIN order_lookup
  /\ DOMAIN order_lookup # {}
  /\ \E n \in DOMAIN nodes : nodes[n].price # last.price

\* ---- C7 -------------------------------------------------------------------
\* C7: amend(id, P, q) with q > 0 on an order resting at price P returns
\* true, leaves the chain of level P exactly as it was (same records in the
\* same order), sets the record's quantity to q and changes the level's
\* aggregate by q - old_q.
C7_SamePriceAmendKeepsPosition ==
  [][(last'.op = "amend" /\ last'.path = "quantity") =>
       LET id == last'.order_id
           n == order_lookup[id]
           is_buy == nodes[n].is_buy
           price == nodes[n].price
           q == last'.quantity
       IN /\ last'.price = price
          /\ q > 0
          /\ last'.ret = "true"
          /\ order_lookup' = order_lookup
          /\ nodes'[n] = [nodes[n] EXCEPT !.quantity = q]
          /\ ChainAt(nodes', SideOf(Book', is_buy), price)
               = ChainAt(nodes, SideOf(Book, is_buy), price)
          /\ TotalAt(SideOf(Book', is_buy), price)
               - TotalAt(SideOf(Book, is_buy), price)
               = q - nodes[n].quantity]_vars

\* a same-price amend has changed the quantity of an order that is not the
\* last of its chain
C7_Witness ==
  /\ last.op = "amend"
  /\ last.path = "quantity"
  /\ last.ret = "true"
  /\ nodes[order_lookup[last.order_id]].next # Null

\* ---- C8 -------------------------------------------------------------------
\* C8: amend(id, new_price, q) with new_price different from the order's
\* price and q > 0 returns true; the order leaves the old level's chain, whose
\* aggregate drops by the old quantity, the old level is removed exactly when
\* the order was its only record, and the order becomes the last record of
\* the new price's chain on the same side, behind all records already there
\* (the level being created if absent), whose aggregate grows by q.
C8_PriceAmendMovesToTail ==
  [][(last'.op = "amend" /\ last'.path = "price") =>
       LET id == last'.order_id
           n == order_lookup[id]
           is_buy == nodes[n].is_buy
           old_price == nodes[n].price
           new_price == last'.price
           q == last'.quantity
           side == SideOf(Book, is_buy)
           side_after == SideOf(Book', is_buy)
           old_chain == ChainAt(nodes, side, old_price)
       IN /\ new_price # old_price
          /\ q > 0
          /\ last'.ret = "true"
          /\ order_lookup' = order_lookup
          /\ nodes'[n].is_buy = is_buy
          /\ nodes'[n].price = new_price
          /\ nodes'[n].quantity = q
          /\ ChainAt(nodes', side_after, old_price)
               = Restrict(old_chain, Range(old_chain) \ {n})
          /\ (old_chain = <<n>>) = (old_price \notin DOMAIN side_after)
          /\ old_price \in DOMAIN side_after =>
               side_after[old_price].total_quantity
                 = side[old_price].total_quantity - nodes[n].quantity
          /\ new_price \in DOMAIN side_after
          /\ ChainAt(nodes', side_after, new_price)
               = Append(ChainAt(nodes, side, new_price), n)
          /\ side_after[new_price].total_quantity
               = TotalAt(side, new_price) + q]_vars

\* a price-changing amend has put the order behind a record that was already
\* resting at the new price, and the side still has a level at another price
C8_Witness ==
  /\ last.op = "amend"
  /\ last.path = "price"
  /\ last.ret = "true"
  /\ LET n == order_lookup[last.order_id]
         side == SideOf(Book, nodes[n].is_buy)
     IN /\ nodes[n].prev # Null
        /\ side[last.price].tail = n
        /\ \E p \in DOMAIN side : p # last.price

\* ---- C9 -------------------------------------------------------------------
\* what C9 asks of one snapshot s taken with depth d of book b
SnapshotAsClaimed(b, s, d) ==
  /\ Len(s.bids_out) <= d
  /\ Len(s.asks_out) <= d
  /\ \A i, j \in DOMAIN s.bids_out :
       i < j => s.bids_out[i].price > s.bids_out[j].price
  /\ \A i, j \in DOMAIN s.asks_out :
       i < j => s.asks_out[i].price < s.asks_out[j].price
  /\ \A i \in DOMAIN s.bids_out :
       /\ s.bids_out[i].price \in DOMAIN b.bids
       /\ s.bids_out[i].total_quantity
            = b.bids[s.bids_out[i].price].total_quantity
  /\ \A i \in DOMAIN s.asks_out :
       /\ s.asks_out[i].price \in DOMAIN b.asks
       /\ s.asks_out[i].total_quantity
            = b.asks[s.asks_out[i].price].total_quantity

\* C9: in every reachable book state and for every depth, get_snapshot
\* returns at most depth levels per side (none for depth 0), bids in strictly
\* descending and asks in strictly ascending price order, no price twice on
\* a side, each with the current aggregate of its level; the vectors a
\* snapshot call has just filled are of that form too.
C9_SnapshotBoundedAndOrdered ==
  /\ \A d \in ObservedDepths :
       SnapshotAsClaimed(Book, get_snapshot(Book, d), d)
  /\ last.op = "snapshot" =>
       SnapshotAsClaimed(Book, [bids_out |-> bids_out, asks_out |-> asks_out],
                         last.depth)

\* a snapshot of depth 2 has returned two bid levels and one ask level
C9_Witness ==
  /\ last.op = "snapshot"
  /\ last.depth = 2
  /\ Len(bids_out) = 2
  /\ Len(asks_out) = 1

\* ---- C10 ------------------------------------------------------------------
RECURSIVE IdsOf(_, _)
\* the identifiers carried by the records of a chain, in chain order
IdsOf(ns, chain) ==
  IF chain = << >> THEN << >>
  ELSE <<IF Head(chain) \in DOMAIN ns THEN ns[Head(chain)].order_id ELSE Null>>
       \o IdsOf(ns, Tail(chain))

\* the identifiers of the records of the level at `price`, head first
ChainIds(ns, side, price) == IdsOf(ns, ChainAt(ns, side, price))

\* C10: chain order is arrival order: in every step and every level, the
\* records that rest in the level before and after the step keep their
\* relative order, and a record that joins the level in the step (by add or
\* by a price-changing amend) stands behind all of them.
C10_ChainOrderIsArrivalOrder ==
  [][\A is_buy \in BOOLEAN, p \in Prices :
       \A old \in {ChainIds(nodes, IF is_buy THEN bids ELSE asks, p)} :
         \A new \in {ChainIds(nodes', IF is_buy THEN bids' ELSE asks', p)} :
           \A stay \in {Range(old) \cap Range(new)} :
             /\ Restrict(new, stay) = Restrict(old, stay)
             /\ \A i, j \in DOMAIN new :
                  (new[i] \in stay /\ new[j] \notin stay) => i < j]_vars

\* an add has joined the tail of an ask level behind two earlier arrivals
C10_Witness ==
  /\ last.op = "add"
  /\ last.price \in DOMAIN asks
  /\ Len(ChainIds(nodes, asks, last.price)) = 3
  /\ ChainIds(nodes, asks, last.price)[3] = last.order_id

\* ---- C11 ------------------------------------------------------------------
\* C11: each identifier goes absent -> resting -> absent: it enters the index
\* only by an add of that identifier, leaves it only by a successful cancel
\* or an amend with new_quantity 0 of that identifier, every such call of a
\* resting identifier removes it, every amend with nonzero quantity keeps it,
\* and an add of an absent identifier (one that has left before included)
\* installs a fresh record: a slot that held no live record, the fields of
\* the call, last in its level's chain.
C11_IdentifierLifeCycle ==
  [][\A id \in OrderIds :
       /\ (id \notin DOMAIN order_lookup /\ id \in DOMAIN order_lookup') =>
            (last'.op = "add" /\ last'.order_id = id)
       /\ (id \in DOMAIN order_lookup /\ id \notin DOMAIN order_lookup') =>
            /\ last'.order_id = id
            /\ last'.ret = "true"
            /\ last'.op = "cancel" \/ (last'.op = "amend" /\ last'.quantity = 0)
       /\ (last'.order_id = id /\ id \in DOMAIN order_lookup) =>
            /\ last'.op = "cancel" => id \notin DOMAIN order_lookup'
            /\ (last'.op = "amend" /\ last'.quantity = 0) =>
                 id \notin DOMAIN order_lookup'
            /\ (last'.op = "amend" /\ last'.quantity > 0) =>
                 (id \in DOMAIN order_lookup' /\ last'.ret = "true")
       /\ (last'.op = "add" /\ last'.order_id = id
             /\ id \notin DOMAIN order_lookup) =>
            /\ id \in DOMAIN order_lookup'
            /\ \A n \in {order_lookup'[id]} :
                 /\ n \notin DOMAIN nodes
                 /\ nodes'[n].order_id = id
                 /\ nodes'[n].price = last'.price
                 /\ nodes'[n].quantity = last'.quantity
                 /\ nodes'[n].next = Null
                 /\ (IF nodes'[n].is_buy THEN bids' ELSE asks')[last'.price].tail
                      = n]_vars

\* an identifier that the previous call removed has been added again, with
\* another price, behind a record already resting there
C11_Witness ==
  /\ last.op = "add"
  /\ last.path = "readd"
  /\ last.order_id \in DOMAIN order_lookup
  /\ nodes[order_lookup[last.order_id]].prev # Null

\* ---- C12 ------------------------------------------------------------------
\* one entry of a snapshot
LevelOut(price, total_quantity) ==
  [price |-> price, total_quantity |-> total_quantity]

\* the record of the k-th call of the sequence when it succeeds
ScenarioLast(k) ==
  Called(ScenarioCalls[k].op, ScenarioCalls[k].id, ScenarioCalls[k].price,
         ScenarioCalls[k].quantity, 0,
         <<"add", "add", "add", "found", "quantity", "price">>[k],
         IF ScenarioCalls[k].op = "add" THEN "void" ELSE "true")

\* C12: from the empty book, add buys 1 (100 x 10), 2 (100 x 5), 3 (101 x 7):
\* snapshot(2) gives bids [(101,7),(100,15)]; cancel(1) succeeds and gives
\* [(101,7),(100,5)]; amend(2,100,20) succeeds and gives [(101,7),(100,20)]
\* with order 2 the only record at 100; amend(3,99,7) succeeds and gives
\* [(100,20),(99,7)]; the asks are empty throughout.
C12_ScenarioSnapshots ==
  /\ asks = EmptyMap
  /\ asks_out = << >>
  /\ last.path \notin {"none", "read", "not_found"} =>
       \E k \in DOMAIN ScenarioCalls : last = ScenarioLast(k) /\ After(k)
  /\ (last.op = "snapshot" /\ last.depth = 2) =>
       /\ After(3) => bids_out = <<LevelOut(101, 7), LevelOut(100, 15)>>
       /\ After(4) => bids_out = <<LevelOut(101, 7), LevelOut(100, 5)>>
       /\ After(5) => bids_out = <<LevelOut(101, 7), LevelOut(100, 20)>>
       /\ After(6) => bids_out = <<LevelOut(100, 20), LevelOut(99, 7)>>
  /\ After(5) => IdsOf(nodes, ChainAt(nodes, bids, 100)) = <<2>>

\* the snapshot of depth 2 taken after the last call of the sequence
C12_Witness ==
  /\ After(6)
  /\ last.op = "snapshot"
  /\ last.depth = 2
  /\ Len(bids_out) = 2

\* ---- C13 ------------------------------------------------------------------
\* C13: when cancel or amend finds the identifier in the index and no level
\* for the side and price of its record, the outcome differs from the false
\* that reports an absent identifier.
C13_MissingLevelIsNotASilentFalse ==
  last.path = "no_level" => last.ret # "false"

\* ---- C14 ------------------------------------------------------------------
\* C14: an add whose block growth fails (empty free list, no new block)
\* leaves the index, both ledgers and every chain (the levels' head and tail,
\* the records and their next and prev) exactly as they were before the call.
C14_FailedGrowthMutatesNothing ==
  [][last'.path = "alloc_failed" =>
       /\ order_lookup' = order_lookup
       /\ bids' = bids
       /\ asks' = asks
       /\ nodes' = nodes]_vars

\* the growth has failed with orders resting and a block already there
C14_Witness ==
  /\ last.path = "alloc_failed"
  /\ order_lookup # EmptyMap
  /\ bids # EmptyMap
  /\ Len(blocks) >= 1

\* ---- C15 ------------------------------------------------------------------
\* the identifiers that enter the index in the step
Entering == DOMAIN order_lookup' \ DOMAIN order_lookup

\* the identifiers that leave the index in the step
Leaving == DOMAIN order_lookup \ DOMAIN order_lookup'

\* C15: the allocator recycles before it grows and never shrinks. In every
\* step the blocks there were stay, in their order; a block is added only by
\* an add that finds the free list empty, one block of BLOCK_SIZE slots that
\* were never handed out, of which the first goes to the new record; an add
\* that finds a free slot takes the first of the free list and adds no block;
\* a record that leaves has its slot put on the free list, with no block
\* released; any other step leaves the pool alone.
C15_RecycleBeforeGrowNeverShrink ==
  [][/\ Len(blocks') >= Len(blocks)
     /\ SubSeq(blocks', 1, Len(blocks)) = blocks
     /\ Len(blocks') > Len(blocks) =>
          /\ free_list = << >>
          /\ Entering # {}
          /\ Len(blocks') = Len(blocks) + 1
          /\ Len(free_list') = BLOCK_SIZE - 1
          /\ \A id \in Entering :
               /\ Cardinality(Range(free_list') \cup {order_lookup'[id]})
                    = BLOCK_SIZE
               /\ \A n \in Range(free_list') \cup {order_lookup'[id]} :
                    n > Len(blocks) * BLOCK_SIZE
     /\ \A id \in Entering :
          free_list # << >> =>
            /\ blocks' = blocks
            /\ order_lookup'[id] = Head(free_list)
            /\ free_list' = Tail(free_list)
     /\ \A id \in Leaving :
          /\ blocks' = blocks
          /\ free_list' = Append(free_list, order_lookup[id])
     /\ (Entering = {} /\ Leaving = {}) =>
          (blocks' = blocks /\ free_list' = free_list)]_vars

\* a second block has been added, and a slot freed since is the next to go out
C15_Witness ==
  /\ Len(blocks) = 2
  /\ free_list # << >>
  /\ Head(free_list) <= BLOCK_SIZE
  /\ last.op = "cancel"
  /\ last.ret = "true"

\* ---- C16 ------------------------------------------------------------------
\* C16: in every state reached by calls that respect add's preconditions,
\* every indexed record has its level in the ledger of its side and that
\* level's aggregate is at least the record's quantity, so that no lookup of
\* cancel or amend returns end() and no subtraction goes below zero; cancel
\* and amend return false only for an identifier absent from the index, and
\* the branches for a missing level are never taken.
C16_LevelLookupNeverFails ==
  /\ \A id \in DOMAIN order_lookup :
       /\ ~NoLevel(Book, id)
       /\ \A nd \in {nodes[order_lookup[id]]} :
            /\ nd.price \in DOMAIN SideOf(Book, nd.is_buy)
            /\ SideOf(Book, nd.is_buy)[nd.price].total_quantity >= nd.quantity
  /\ last.path # "no_level"
  /\ last.ret = "false" => last.path = "not_found"

\* a cancel has succeeded and left two orders at one level
C16_Witness ==
  /\ last.op = "cancel"
  /\ last.ret = "true"
  /\ \E is_buy \in BOOLEAN :
       \E p \in DOMAIN SideOf(Book, is_buy) :
         Len(Chain(nodes, SideOf(Book, is_buy)[p])) = 2

\* ---- C17 ------------------------------------------------------------------
\* every slot a pointer of the book refers to: the index entries, the head
\* and tail of every level, the next and prev of every record
Referenced(b) ==
  ({b.order_lookup[id] : id \in DOMAIN b.order_lookup}
   \cup {b.bids[p].head : p \in DOMAIN b.bids}
   \cup {b.bids[p].tail : p \in DOMAIN b.bids}
   \cup {b.asks[p].head : p \in DOMAIN b.asks}
   \cup {b.asks[p].tail : p \in DOMAIN b.asks}
   \cup {b.nodes[n].next : n \in DOMAIN b.nodes}
   \cup {b.nodes[n].prev : n \in DOMAIN b.nodes}) \ {Null}

\* C17: a slot handed out is not handed out again until it is released: in
\* every state reached under correct use no two resting records occupy one
\* slot, no slot is twice on the free list, and no slot of the free list
\* holds a record or is referenced by the index or by a head, tail, next or
\* prev.
C17_SlotsAreExclusive ==
  /\ \A id1, id2 \in DOMAIN order_lookup :
       order_lookup[id1] = order_lookup[id2] => id1 = id2
  /\ \A id \in DOMAIN order_lookup :
       /\ order_lookup[id] \in DOMAIN nodes
       /\ nodes[order_lookup[id]].order_id = id
  /\ \A i, j \in DOMAIN free_list : free_list[i] = free_list[j] => i = j
  /\ Range(free_list) \cap DOMAIN nodes = {}
  /\ Range(free_list) \cap Referenced(Book) = {}

\* the add just made got a slot that had been handed out and released
\* before: a slot handed out later for the first time is still in use
C17_Witness ==
  /\ last.op = "add"
  /\ last.order_id \in DOMAIN order_lookup
  /\ \E n \in DOMAIN nodes : order_lookup[last.order_id] < n
  /\ free_list # << >>

\* ---- C18 ------------------------------------------------------------------
\* the slots of the records whose side and price are those of the level
RecordsOf(b, is_buy, price) ==
  {n \in DOMAIN b.nodes : b.nodes[n].is_buy = is_buy /\ b.nodes[n].price = price}

\* C18: after every operation every level's chain is a well-formed doubly
\* linked list: head is null exactly when tail is null; head.prev and
\* tail.next are null; r.next.prev = r and r.prev.next = r for every record r
\* of the chain with such a link; following next from head ends at tail,
\* meets no slot twice and meets exactly the records of that side and price.
C18_ChainsAreWellFormed ==
  \A is_buy \in BOOLEAN :
    \A p \in DOMAIN SideOf(Book, is_buy) :
      \A level \in {SideOf(Book, is_buy)[p]} :
        \A chain \in {Chain(nodes, level)} :
          /\ (level.head = Null) <=> (level.tail = Null)
          /\ Range(chain) \subseteq DOMAIN nodes
          /\ level.head # Null =>
               /\ nodes[level.head].prev = Null
               /\ nodes[level.tail].next = Null
               /\ chain[Len(chain)] = level.tail
          /\ \A r \in Range(chain) :
               /\ nodes[r].next # Null => nodes[nodes[r].next].prev = r
               /\ nodes[r].prev # Null => nodes[nodes[r].prev].next = r
          /\ \A i, j \in DOMAIN chain : chain[i] = chain[j] => i = j
          /\ Range(chain) = RecordsOf(Book, is_buy, p)

\* a cancel or an amend has succeeded and left a bid chain of order 1 in
\* front of order 3, with order 2 not on the bid side
C18_Witness ==
  /\ last.op \in {"cancel", "amend"}
  /\ last.ret = "true"
  /\ \E p \in DOMAIN bids :
       /\ Len(Chain(nodes, bids[p])) = 2
       /\ nodes[bids[p].head].order_id = 1
       /\ nodes[bids[p].tail].order_id = 3
  /\ 2 \notin DOMAIN order_lookup \/ nodes[order_lookup[2]].price \notin DOMAIN bids

\* ---- C19 ------------------------------------------------------------------
\* C19: a successful cancel or amend of order X changes nothing about any
\* other resting order: every other order stays in the index with its slot,
\* side, price and quantity, and every chain reads the same before and after
\* once X is left out; an amend keeps X's side; and on the side opposite to
\* X's the ledger (levels, aggregates, heads and tails) and the records with
\* their links are unchanged.
C19_OtherOrdersUntouched ==
  [][(last'.op \in {"cancel", "amend"} /\ last'.ret = "true"
        /\ last'.order_id \in DOMAIN order_lookup) =>
       \A x \in {last'.order_id} :
         \A side \in {nodes[order_lookup[x]].is_buy} :
           /\ \A id \in DOMAIN order_lookup \ {x} :
                /\ id \in DOMAIN order_lookup'
                /\ order_lookup'[id] = order_lookup[id]
                /\ nodes'[order_lookup'[id]].is_buy = nodes[order_lookup[id]].is_buy
                /\ nodes'[order_lookup'[id]].price = nodes[order_lookup[id]].price
                /\ nodes'[order_lookup'[id]].quantity =
                     nodes[order_lookup[id]].quantity
           /\ \A is_buy \in BOOLEAN, p \in Prices :
                Restrict(ChainIds(nodes', IF is_buy THEN bids' ELSE asks', p),
                         OrderIds \ {x})
                  = Restrict(ChainIds(nodes, IF is_buy THEN bids ELSE asks, p),
                             OrderIds \ {x})
           /\ x \in DOMAIN order_lookup' =>
                nodes'[order_lookup'[x]].is_buy = side
           /\ (IF side THEN asks' ELSE bids') = (IF side THEN asks ELSE bids)
           /\ \A n \in DOMAIN nodes :
                nodes[n].is_buy # side => (n \in DOMAIN nodes' /\ nodes'[n] = nodes[n])]_vars

\* an order has been moved to another price while another order rests on
\* its side and one on the opposite side
C19_Witness ==
  /\ last.op = "amend"
  /\ last.path = "price"
  /\ last.ret = "true"
  /\ Cardinality(DOMAIN order_lookup) = 3
  /\ \E id \in DOMAIN order_lookup :
       nodes[order_lookup[id]].is_buy # nodes[order_lookup[last.order_id]].is_buy
  /\ \E id \in DOMAIN order_lookup \ {last.order_id} :
       nodes[order_lookup[id]].is_buy = nodes[order_lookup[last.order_id]].is_buy

\* ---- C20 ------------------------------------------------------------------
\* the slots of the records no index entry points at
Orphans(b) ==
  DOMAIN b.nodes \ {b.order_lookup[id] : id \in DOMAIN b.order_lookup}

\* slot n holds a record that is in the chain of the level of its side and
\* price, and that level's aggregate is the sum over the chain
LinkedAndCounted(b, n) ==
  /\ n \in DOMAIN b.nodes
  /\ b.nodes[n].price \in DOMAIN SideOf(b, b.nodes[n].is_buy)
  /\ \A level \in {SideOf(b, b.nodes[n].is_buy)[b.nodes[n].price]} :
       \A chain \in {Chain(b.nodes, level)} :
         /\ n \in Range(chain)
         /\ level.total_quantity = SumQuantities(b.nodes, chain)

\* C20: add_order does not refuse an identifier that is resting: the index
\* entry then points at the new record, in another slot, and the earlier
\* record stays linked in its chain and counted in its level's aggregate.
\* A record without an index entry is out of reach of cancel and amend: in
\* every later step it stays such a record, with its identifier, side, price
\* and quantity, linked and counted, so that its level never becomes empty.
C20_DuplicateAddOrphansEarlierRecord ==
  [][/\ last'.path = "duplicate" =>
          \A old \in {order_lookup[last'.order_id]} :
            \A new \in {order_lookup'[last'.order_id]} :
              /\ new # old
              /\ new \notin DOMAIN nodes
              /\ nodes'[new].order_id = last'.order_id
              /\ nodes'[new].price = last'.price
              /\ nodes'[new].quantity = last'.quantity
              /\ LinkedAndCounted([Book EXCEPT !.nodes = nodes', !.bids = bids',
                                               !.asks = asks'], new)
              /\ old \in Orphans([Book EXCEPT !.nodes = nodes',
                                              !.order_lookup = order_lookup'])
     /\ \A n \in Orphans(Book) :
          /\ n \in Orphans([Book EXCEPT !.nodes = nodes',
                                        !.order_lookup = order_lookup'])
          /\ nodes'[n].order_id = nodes[n].order_id
          /\ nodes'[n].is_buy = nodes[n].is_buy
          /\ nodes'[n].price = nodes[n].price
          /\ nodes'[n].quantity = nodes[n].quantity
     /\ \A n \in Orphans([Book EXCEPT !.nodes = nodes',
                                      !.order_lookup = order_lookup']) :
          LinkedAndCounted([Book EXCEPT !.nodes = nodes', !.bids = bids',
                                        !.asks = asks'], n)]_vars

\* an identifier was added twice and then cancelled: the index is empty and
\* the earlier record still holds its level
C20_Witness ==
  /\ last.op = "cancel"
  /\ last.ret = "true"
  /\ order_lookup = EmptyMap
  /\ Orphans(Book) # {}
  /\ \E n \in Orphans(Book) : nodes[n].order_id = last.order_id
  /\ bids # EmptyMap

====
